---- MODULE Spec2Model ----
(***************************************************************************)
(* Model of WindResourceModel (src/src/wind_resource.py).                  *)
(*                                                                         *)
(* Numbers.  A value of the program is a Python int or an IEEE double.     *)
(* It is written here as a record                                          *)
(*     [k, c, neg, n, d]                                                   *)
(* k   : "int" (Python int), "flt" (double) or "cpx" (see PyPow)           *)
(* c   : "fin" (the rational n/d), "inf", "nan", or "pow" (see fit_weibull)*)
(* neg : the sign bit; a double keeps it on zero (-0.0), an int does not   *)
(* n,d : magnitude as a reduced fraction, d > 0                            *)
(* Arithmetic is exact on the rationals; the inputs are drawn so that      *)
(* every square root taken is the root of a perfect square.                *)
(***************************************************************************)
EXTENDS Integers, Sequences, FiniteSets

-----------------------------------------------------------------------------
(* Bounds of the model *)

MaxFiles == 2
MaxLoads == 2
MaxSample == 3
MaxSpeed == 2
MaxCurve == 3
MaxCols == 2
MaxUV == 4

-----------------------------------------------------------------------------
(* The record of a call: the method, its arguments, the error it raised    *)
(* ("none" when it returned), the number of load_data calls it made and    *)
(* the value it returned.                                                  *)

NoCall == [op |-> "init", args |-> <<>>, err |-> "none", nload |-> 0, val |-> <<>>]

Call(op, args, nload, err, val) ==
    [op |-> op, args |-> args, err |-> err, nload |-> nload, val |-> val]

-----------------------------------------------------------------------------
(* Exact arithmetic on the number records *)

Abs(i) == IF i < 0 THEN -i ELSE i

RECURSIVE GCD(_, _)
GCD(a, b) == IF b = 0 THEN a ELSE GCD(b, a % b)

NaN == [k |-> "flt", c |-> "nan", neg |-> FALSE, n |-> 0, d |-> 1]

Inf(neg) == [k |-> "flt", c |-> "inf", neg |-> neg, n |-> 0, d |-> 1]

\* the double with sign bit neg and magnitude n/d (n >= 0, d > 0)
Flt(neg, n, d) ==
    LET g == GCD(n, d)
    IN  [k |-> "flt", c |-> "fin", neg |-> neg, n |-> n \div g, d |-> d \div g]

\* the double of the signed fraction sn/d; an exact zero result is +0.0
Rat(sn, d) == Flt(sn < 0, Abs(sn), d)

\* the Python int i
PyInt(i) == [k |-> "int", c |-> "fin", neg |-> i < 0, n |-> Abs(i), d |-> 1]

IsNaN(x) == x.c = "nan"

IsFinite(x) == x.c \in {"fin", "pow"}

IsZero(x) == x.c = "fin" /\ x.n = 0

\* signed numerator
SN(x) == IF x.neg THEN -x.n ELSE x.n

\* an int operand is converted to the double of the same value
ToFlt(x) == IF x.k = "int" THEN [x EXCEPT !.k = "flt"] ELSE x

Neg(x) ==
    IF x.c = "nan" THEN x
    ELSE IF x.k = "int" /\ x.n = 0 THEN x
    ELSE [x EXCEPT !.neg = ~x.neg]

Add(x, y) ==
    IF x.c = "nan" \/ y.c = "nan" THEN NaN
    ELSE IF x.c = "inf" \/ y.c = "inf"
         THEN IF x.c = "inf" /\ y.c = "inf" /\ x.neg # y.neg THEN NaN
              ELSE IF x.c = "inf" THEN Inf(x.neg) ELSE Inf(y.neg)
    ELSE IF x.k = "int" /\ y.k = "int" THEN PyInt(SN(x) + SN(y))
    ELSE IF x.n = 0 /\ y.n = 0 THEN Flt(ToFlt(x).neg /\ ToFlt(y).neg, 0, 1)
    ELSE LET g == GCD(x.d, y.d)
         IN  Rat(SN(x) * (y.d \div g) + SN(y) * (x.d \div g), (x.d \div g) * y.d)

Sub(x, y) == Add(x, Neg(ToFlt(y)))

\* a complex number off the real axis; its parts are not tracked
Complex == [k |-> "cpx", c |-> "cpx", neg |-> FALSE, n |-> 0, d |-> 1]

Mul(x, y) ==
    IF x.c = "cpx" \/ y.c = "cpx" THEN Complex
    ELSE IF x.c = "nan" \/ y.c = "nan" THEN NaN
    ELSE IF x.c = "inf" \/ y.c = "inf"
         THEN IF IsZero(x) \/ IsZero(y) THEN NaN ELSE Inf(x.neg # y.neg)
    ELSE IF x.k = "int" /\ y.k = "int" THEN PyInt(SN(x) * SN(y))
    ELSE LET g1 == IF x.n = 0 THEN y.d ELSE GCD(x.n, y.d)
             g2 == IF y.n = 0 THEN x.d ELSE GCD(y.n, x.d)
         IN  Flt(x.neg # y.neg, (x.n \div g1) * (y.n \div g2),
                 (x.d \div g2) * (y.d \div g1))

\* true division of numpy values (float64 scalars and arrays), always a
\* double: a zero divisor gives inf or nan with a RuntimeWarning and no
\* exception.  Division of Python numbers is PyTrueDiv.
Div(x, y) ==
    IF x.c = "nan" \/ y.c = "nan" THEN NaN
    ELSE IF x.c = "inf" THEN (IF y.c = "inf" THEN NaN ELSE Inf(x.neg # y.neg))
    ELSE IF y.c = "inf" THEN Flt(x.neg # y.neg, 0, 1)
    ELSE IF y.n = 0 THEN (IF x.n = 0 THEN NaN ELSE Inf(x.neg # y.neg))
    ELSE LET g1 == IF x.n = 0 THEN y.n ELSE GCD(x.n, y.n)
             g2 == GCD(x.d, y.d)
         IN  Flt(x.neg # y.neg, (x.n \div g1) * (y.d \div g2),
                 (x.d \div g2) * (y.n \div g1))

\* comparisons of rationals and infinities; any comparison with NaN is false
Lt(x, y) ==
    IF x.c = "inf" THEN x.neg /\ (y.c = "fin" \/ (y.c = "inf" /\ ~y.neg))
    ELSE IF y.c = "inf" THEN x.c = "fin" /\ ~y.neg
    ELSE /\ x.c = "fin" /\ y.c = "fin"
         /\ LET g == GCD(x.d, y.d) IN SN(x) * (y.d \div g) < SN(y) * (x.d \div g)

\* fractions are reduced, so equal values have equal magnitudes
Eq(x, y) ==
    IF x.c = "inf" \/ y.c = "inf" THEN x.c = y.c /\ x.neg = y.neg
    ELSE /\ x.c = "fin" /\ y.c = "fin"
         /\ SN(x) = SN(y) /\ x.d = y.d

Le(x, y) == Lt(x, y) \/ Eq(x, y)

IsSquare(m) == \E r \in 0..m : r * r = m

ISqrt(m) == CHOOSE r \in 0..m : r * r = m

\* np.sqrt of a non-negative value whose root is rational
Sqrt(x) ==
    IF x.c = "nan" THEN NaN
    ELSE IF x.c = "inf" THEN x
    ELSE Flt(x.neg, ISqrt(x.n), ISqrt(x.d))

HasSqrt(x) == x.c # "fin" \/ (IsSquare(x.n) /\ IsSquare(x.d))

RECURSIVE SeqSum(_)
SeqSum(s) == IF s = <<>> THEN Flt(FALSE, 0, 1) ELSE Add(SeqSum(Tail(s)), ToFlt(Head(s)))

-----------------------------------------------------------------------------
(* Angles in degrees.  An angle is [c, lo, hi]: c = "nan", or c = "fin" and  *)
(* the angle is exactly lo when lo = hi, and lies strictly between lo and hi *)
(* otherwise (the arctangent of a ratio other than 0, 1 or infinity).        *)

Deg(lo, hi) == [c |-> "fin", lo |-> lo, hi |-> hi]

DegNaN == [c |-> "nan", lo |-> 0, hi |-> 0]

\* np.degrees(np.arctan2(y, x)) for finite y, x, with the IEEE rules for
\* signed zeros: atan2(+-0, +0) = +-0, atan2(+-0, -0) = +-pi
ArcTan2Deg(y0, x0) ==
    LET y == ToFlt(y0)
        x == ToFlt(x0)
        pos == IF y.n = 0 THEN (IF x.neg THEN Deg(180, 180) ELSE Deg(0, 0))
               ELSE IF x.n = 0 THEN Deg(90, 90)
               ELSE IF y.n * x.d = x.n * y.d
                    THEN (IF x.neg THEN Deg(135, 135) ELSE Deg(45, 45))
               ELSE IF y.n * x.d < x.n * y.d
                    THEN (IF x.neg THEN Deg(135, 180) ELSE Deg(0, 45))
               ELSE (IF x.neg THEN Deg(90, 135) ELSE Deg(45, 90))
    IN  IF y.c = "nan" \/ x.c = "nan" THEN DegNaN
        ELSE IF y.neg THEN Deg(-pos.hi, -pos.lo) ELSE pos

\* a + 360.0
DegAdd360(a) == IF a.c = "nan" THEN a ELSE Deg(a.lo + 360, a.hi + 360)

\* a % 360.0 (the result of the float modulo has the sign of the divisor)
DegMod360(a) ==
    IF a.c = "nan" THEN a
    ELSE Deg(a.lo % 360, (a.lo % 360) + (a.hi - a.lo))

-----------------------------------------------------------------------------
(* Pure functions of WindResourceModel *)

\* _uv_to_speed_dir(u, v): speed and meteorological direction
uv_to_speed_dir(u, v) ==
    [speed |-> Sqrt(ToFlt(Add(Mul(u, u), Mul(v, v)))),
     direction |-> DegMod360(DegAdd360(ArcTan2Deg(Neg(u), Neg(v))))]

\* The heights and the exponent of power_law_profile are Python numbers (the
\* callers pass ints and floats), so "/" and "**" are the operators of Python
\* floats: they raise where numpy would return inf.
\* x / y: a zero divisor raises ZeroDivisionError, whatever x is
PyTrueDiv(x, y) ==
    IF IsZero(y) THEN [err |-> "ZeroDivisionError", val |-> <<>>]
    ELSE [err |-> "none", val |-> Div(x, y)]

\* the power of a double x other than NaN with the integer a, a # 0, and
\* x # 0 when a < 0
RECURSIVE Pow(_, _)
Pow(x, a) ==
    IF a = 0 THEN Flt(FALSE, 1, 1)
    ELSE IF a < 0 THEN Div(Flt(FALSE, 1, 1), Pow(x, -a))
    ELSE Mul(ToFlt(x), Pow(x, a - 1))

\* x ** a for a double x and a finite exponent a that is an integer or an
\* odd multiple of one half (then the root of x must be rational):
\* x ** 0 is 1.0 for every x; a zero base with a negative exponent raises
\* ZeroDivisionError; a negative base with a fractional exponent gives a
\* complex number; (+-0.0) ** a is +0.0 and (+-inf) ** a is +inf (a > 0) or
\* +0.0 (a < 0) unless a is an odd integer
PyPow(x, a) ==
    IF IsZero(a) THEN [err |-> "none", val |-> Flt(FALSE, 1, 1)]
    ELSE IF x.c = "nan" THEN [err |-> "none", val |-> NaN]
    ELSE IF x.c = "inf" /\ a.d # 1
         THEN [err |-> "none", val |-> IF a.neg THEN Flt(FALSE, 0, 1) ELSE Inf(FALSE)]
    ELSE IF IsZero(x) /\ a.neg THEN [err |-> "ZeroDivisionError", val |-> <<>>]
    ELSE IF a.d = 1 THEN [err |-> "none", val |-> Pow(x, SN(a))]
    ELSE IF x.neg /\ x.n # 0 THEN [err |-> "none", val |-> Complex]
    ELSE [err |-> "none", val |-> Pow(Flt(FALSE, ISqrt(x.n), ISqrt(x.d)), SN(a))]

\* factor = (z_target / z_ref) ** alpha
power_law_factor(z_ref, z_target, alpha) ==
    LET ratio == PyTrueDiv(z_target, z_ref)
    IN  IF ratio.err # "none" THEN ratio ELSE PyPow(ratio.val, alpha)

\* the ratio of the heights inverted
power_law_profile_inverted(speed_ref, z_ref, z_target, alpha) ==
    LET factor == power_law_factor(z_target, z_ref, alpha)
    IN  IF factor.err # "none" THEN factor
        ELSE [err |-> "none", val |-> Mul(ToFlt(speed_ref), factor.val)]

\* power_law_profile(speed_ref, z_ref, z_target, alpha) on one speed: the
\* error raised and the value returned
power_law_profile(speed_ref, z_ref, z_target, alpha) ==
    LET factor == power_law_factor(z_ref, z_target, alpha)
    IN  IF factor.err # "none" THEN factor
        ELSE [err |-> "none", val |-> Mul(ToFlt(speed_ref), factor.val)]

\* the same on a series of speeds: the factor is computed once (and raises
\* also for an empty series), then numpy multiplies every speed by it
power_law_series(speeds, z_ref, z_target, alpha) ==
    CHOOSE out \in
        {(IF factor.err # "none" THEN factor
          ELSE [err |-> "none",
                val |-> [i \in 1..Len(speeds) |-> Mul(ToFlt(speeds[i]), factor.val)]])
            : factor \in {power_law_factor(z_ref, z_target, alpha)}} : TRUE

\* the NaN entries kept
DropNaN_kept(speeds) == speeds

\* arr[~np.isnan(arr)]
DropNaN(speeds) == SelectSeq(speeds, LAMBDA x : ~IsNaN(x))

\* arr.mean()
ArrMean(arr) == Div(SeqSum(arr), PyInt(Len(arr)))

\* arr.std() ** 2: the mean of the squared deviations from the mean
ArrVar(arr) ==
    LET m == ArrMean(arr)
    IN  Div(SeqSum([i \in 1..Len(arr) |-> Mul(Sub(arr[i], m), Sub(arr[i], m))]),
            PyInt(Len(arr)))

\* (std / mean) ** -1.086, from ratio2 = (std / mean) ** 2 and the sign of
\* the ratio.  pow(+-0, y) is +inf and pow(x, y) is NaN for x < 0 when y is
\* negative and not an integer; for x > 0 the result is finite and positive,
\* written symbolically: c = "pow" with n/d the squared ratio.
PowM1086(ratioNeg, ratio2) ==
    IF ratio2.c = "nan" THEN NaN
    ELSE IF ratio2.c = "inf" THEN Flt(FALSE, 0, 1)
    ELSE IF ratio2.n = 0 THEN Inf(FALSE)
    ELSE IF ratioNeg THEN NaN
    ELSE [k |-> "flt", c |-> "pow", neg |-> FALSE, n |-> ratio2.n, d |-> ratio2.d]

\* gamma(1.0 + 1.0 / k): exactly 1 for k = inf (1/inf = 0, gamma(1) = 1),
\* finite and positive (symbolic) for finite k > 0
GammaOnePlusInv(k) ==
    IF k.c = "nan" THEN NaN
    ELSE IF k.c = "inf" THEN Flt(FALSE, 1, 1)
    ELSE IF k.c = "pow" THEN [k |-> "flt", c |-> "pow", neg |-> FALSE, n |-> k.d, d |-> k.n]
    ELSE Inf(FALSE)

\* mean / g for g = gamma(...): exact when g is exact, symbolic otherwise
\* (c = "pow" with n/d the mean)
DivGamma(mean, g) ==
    IF g.c = "pow" THEN [k |-> "flt", c |-> "pow", neg |-> mean.neg, n |-> mean.n, d |-> mean.d]
    ELSE Div(mean, g)

\* fit_weibull(speeds): the pair (A, k)
fit_weibull(speeds) ==
    LET arr == DropNaN(speeds)
    IN  IF Len(arr) = 0 THEN [k |-> NaN, A |-> NaN]
        ELSE LET mean == ArrMean(arr)
                 var == ArrVar(arr)
             IN  IF Eq(mean, PyInt(0)) THEN [k |-> NaN, A |-> NaN]
                 ELSE LET k == PowM1086(mean.neg, Div(var, Mul(mean, mean)))
                          A == DivGamma(mean, GammaOnePlusInv(k))
                      IN  [k |-> k, A |-> A]

\* "sub in c" for strings written as tuples of characters
Contains(sub, c) ==
    \E i \in 1..(Len(c) - Len(sub) + 1) : SubSeq(c, i, i + Len(sub) - 1) = sub

WindSpeedStr == <<"W", "i", "n", "d", " ", "S", "p", "e", "e", "d">>

PowerStr == <<"P", "o", "w", "e", "r">>

\* [c for c in df.columns if sub in c]: the indices of the matching columns
Matching(df, sub) ==
    SelectSeq([i \in 1..Len(df.columns) |-> i],
              LAMBDA i : Contains(sub, df.columns[i]))

\* a missing column replaced by the first column of the table
load_power_curve_fallback(df) ==
    LET wsm == Matching(df, WindSpeedStr) \o <<1>>
        pm == Matching(df, PowerStr) \o <<1>>
    IN  IF df.columns = <<>> THEN [err |-> "IndexError", ws |-> <<>>, power |-> <<>>]
        ELSE [err |-> "none",
              ws |-> [r \in 1..Len(df.values[wsm[1]]) |-> ToFlt(df.values[wsm[1]][r])],
              power |-> [r \in 1..Len(df.values[pm[1]]) |-> ToFlt(df.values[pm[1]][r])]]

\* load_power_curve on the table df read from the CSV file; [0] on an empty
\* list raises IndexError
load_power_curve(df) ==
    LET wsm == Matching(df, WindSpeedStr)
        pm == Matching(df, PowerStr)
    IN  IF wsm = <<>> THEN [err |-> "IndexError", ws |-> <<>>, power |-> <<>>]
        ELSE IF pm = <<>> THEN [err |-> "IndexError", ws |-> <<>>, power |-> <<>>]
        ELSE [err |-> "none",
              ws |-> [r \in 1..Len(df.values[wsm[1]]) |-> ToFlt(df.values[wsm[1]][r])],
              power |-> [r \in 1..Len(df.values[pm[1]]) |-> ToFlt(df.values[pm[1]][r])]]

\* np.interp on one query x and finite ascending sample points xp.
\* A single sample point is a case of its own, decided by two comparisons
\* only, so that a NaN query gets fp[1].  Otherwise NaN stays NaN, x beyond
\* either end gives left/right, x on a sample point gives its value, and any
\* other x the value on the segment [xp[j], xp[j+1]] with xp[j] <= x < xp[j+1];
\* should that be NaN, the line is taken from the other end of the segment,
\* and fp[j] if that is NaN too and both ends are equal.
NpInterp(x, xp, fp, left, right) ==
    LET n == Len(xp)
    IN  IF n = 1
        THEN (IF Lt(x, xp[1]) THEN left ELSE IF Lt(xp[1], x) THEN right ELSE fp[1])
        ELSE IF IsNaN(x) THEN x
        ELSE IF Lt(xp[n], x) THEN right
        ELSE IF Lt(x, xp[1]) THEN left
        ELSE IF Eq(x, xp[n]) THEN fp[n]
        ELSE LET j == CHOOSE i \in 1..(n - 1) : Le(xp[i], x) /\ Lt(x, xp[i + 1])
                 slope == Div(Sub(fp[j + 1], fp[j]), Sub(xp[j + 1], xp[j]))
                 fromLeft == Add(Mul(slope, Sub(x, xp[j])), fp[j])
                 fromRight == Add(Mul(slope, Sub(x, xp[j + 1])), fp[j + 1])
             IN  IF Eq(x, xp[j]) THEN fp[j]
                 ELSE IF ~IsNaN(fromLeft) THEN fromLeft
                 ELSE IF IsNaN(fromRight) /\ Eq(fp[j], fp[j + 1]) THEN fp[j]
                 ELSE fromRight

\* np.interp without left/right: the end values are held beyond the ends
interpolate_power_clamped(ws_values, ws_curve, power_curve) ==
    [i \in 1..Len(ws_values) |->
        NpInterp(ws_values[i], ws_curve, power_curve,
                 power_curve[1], power_curve[Len(power_curve)])]

\* interpolate_power(ws_values, ws_curve, power_curve)
interpolate_power(ws_values, ws_curve, power_curve) ==
    [i \in 1..Len(ws_values) |->
        NpInterp(ws_values[i], ws_curve, power_curve, Flt(FALSE, 0, 1), Flt(FALSE, 0, 1))]

-----------------------------------------------------------------------------
(* The gridded input.  A NetCDF file is named by the first of its two       *)
(* consecutive time steps; every file holds u10, v10, u100, v100 on the same *)
(* 2 x 2 grid with nodes at latitude/longitude 0 and GridSpan.  Time step t  *)
(* lies in year DefaultStartYear + t \div StepsPerYear.                      *)

StepsPerYear == 2
GridSpan == 2

\* the default year window of the query methods
DefaultStartYear == 1997

DefaultEndYear == 2008

GridHeights == {10, 100}

Year(t) == DefaultStartYear + (t \div StepsPerYear)

\* wind components stored in file path at time t, node (i, j), height h
Scale(path, t, i, j, h) ==
    (path + t + i * j + (IF h = 100 THEN 1 ELSE 0)) % (MaxSpeed + 1)

GridU(path, t, i, j, h) ==
    Rat((IF path % 2 = 0 THEN 3 ELSE -4) * Scale(path, t, i, j, h), 1)

GridV(path, t, i, j, h) ==
    Rat((IF path % 2 = 0 THEN 4 ELSE 3) * Scale(path, t, i, j, h), 1)

\* xr.open_dataset(path): the time axis of the file, each step tagged with
\* the file that holds its data
open_dataset(path) == <<[t |-> path, path |-> path], [t |-> path + 1, path |-> path]>>

\* xr.concat(datasets, dim="time"): the time axes one after the other
RECURSIVE concat(_)
concat(datasets) ==
    IF datasets = <<>> THEN <<>> ELSE Head(datasets) \o concat(Tail(datasets))

\* insert step e behind every step of the sorted axis s that is not later
RECURSIVE InsertStable(_, _)
InsertStable(s, e) ==
    IF s = <<>> THEN <<e>>
    ELSE IF s[Len(s)].t <= e.t THEN Append(s, e)
    ELSE Append(InsertStable(SubSeq(s, 1, Len(s) - 1), e), s[Len(s)])

\* .sortby("time"): a stable sort by time; equal times are all kept
RECURSIVE sortby_time(_)
sortby_time(s) ==
    IF s = <<>> THEN <<>>
    ELSE InsertStable(sortby_time(SubSeq(s, 1, Len(s) - 1)), s[Len(s)])

NoneDs == [loaded |-> FALSE, time |-> <<>>]

\* load_data(): xr.concat raises ValueError on an empty list, before self.ds
\* is assigned
load_data(files) ==
    LET datasets == [i \in 1..Len(files) |-> open_dataset(files[i])]
    IN  IF datasets = <<>> THEN [err |-> "ValueError", ds |-> NoneDs]
        ELSE [err |-> "none",
              ds |-> [loaded |-> TRUE, time |-> sortby_time(concat(datasets))]]

\* the guard "if self.ds is None" left out
ensure_data_loaded_always(d, files) ==
    LET r == load_data(files)
    IN  [err |-> r.err, nload |-> 1, ds |-> IF r.err = "none" THEN r.ds ELSE d]

\* _ensure_data_loaded(): self.ds afterwards, the number of load_data calls
\* made, and the error raised
ensure_data_loaded(d, files) ==
    IF ~d.loaded
    THEN LET r == load_data(files)
         IN  [err |-> r.err, nload |-> 1, ds |-> IF r.err = "none" THEN r.ds ELSE d]
    ELSE [err |-> "none", nload |-> 0, ds |-> d]

\* self.ds.sel(time=slice("<start>-01-01", "<end>-12-31"))
sel_years(time, start_year, end_year) ==
    SelectSeq(time, LAMBDA e : start_year <= Year(e.t) /\ Year(e.t) <= end_year)

\* subset_years(start_year, end_year).  Here and below the result of a call
\* is CHOOSE out \in {... : x \in {callee(...)}} : TRUE, which is the value
\* of "..." with x the result of the callee, evaluated once.
subset_years(d, files, start_year, end_year) ==
    CHOOSE out \in
        {[err |-> e.err, nload |-> e.nload,
          val |-> IF e.err = "none" THEN sel_years(e.ds.time, start_year, end_year)
                  ELSE <<>>,
          ds |-> e.ds] : e \in {ensure_data_loaded(d, files)}} : TRUE

\* linear interpolation on one axis between the nodes at 0 and GridSpan;
\* a point outside the axis gives NaN (no extrapolation)
Interp1(x, y0, y1) ==
    IF x < 0 \/ x > GridSpan THEN NaN
    ELSE Add(y0, Mul(Sub(y1, y0), Rat(x, GridSpan)))

\* .interp(latitude=lat, longitude=lon) of a field with the values f00, f10
\* (latitude nodes 0, 1 at longitude node 0) and f01, f11 (at longitude node 1)
Interp2(f00, f10, f01, f11, lat, lon) ==
    Interp1(lon, Interp1(lat, f00, f10), Interp1(lat, f01, f11))

\* the variable u<height> / v<height> of time step e at the point (lat, lon)
InterpU(e, height, lat, lon) ==
    Interp2(GridU(e.path, e.t, 0, 0, height), GridU(e.path, e.t, 1, 0, height),
            GridU(e.path, e.t, 0, 1, height), GridU(e.path, e.t, 1, 1, height), lat, lon)

InterpV(e, height, lat, lon) ==
    Interp2(GridV(e.path, e.t, 0, 0, height), GridV(e.path, e.t, 1, 0, height),
            GridV(e.path, e.t, 0, 1, height), GridV(e.path, e.t, 1, 1, height), lat, lon)

\* get_speed_direction_at_height: ds_sel["u<height>"] raises KeyError when
\* the grid has no such variable
get_speed_direction_at_height(d, files, height, start_year, end_year) ==
    CHOOSE out \in
        {(IF s.err # "none" THEN s
          ELSE IF height \notin GridHeights THEN [s EXCEPT !.err = "KeyError", !.val = <<>>]
          ELSE [s EXCEPT !.val =
                  [n \in 1..Len(s.val) |->
                      [ij \in {0, 1} \X {0, 1} |->
                          uv_to_speed_dir(
                              GridU(s.val[n].path, s.val[n].t, ij[1], ij[2], height),
                              GridV(s.val[n].path, s.val[n].t, ij[1], ij[2], height))]]])
            : s \in {subset_years(d, files, start_year, end_year)}} : TRUE

\* get_time_series_at_location
get_time_series_at_location(d, files, lat, lon, height, start_year, end_year) ==
    CHOOSE out \in
        {(IF s.err # "none" THEN s
          ELSE IF height \notin GridHeights THEN [s EXCEPT !.err = "KeyError", !.val = <<>>]
          ELSE [s EXCEPT !.val =
                  [n \in 1..Len(s.val) |->
                      CHOOSE sd \in
                          {uv_to_speed_dir(u, v) :
                              u \in {InterpU(s.val[n], height, lat, lon)},
                              v \in {InterpV(s.val[n], height, lat, lon)}} : TRUE]])
            : s \in {subset_years(d, files, start_year, end_year)}} : TRUE

\* ts["speed"]
SpeedOf(ts) == [n \in 1..Len(ts) |-> ts[n].speed]

\* get_speed_at_height_power_law
get_speed_at_height_power_law(d, files, lat, lon, z_target, ref_height, alpha, start_year, end_year) ==
    CHOOSE out \in
        {(IF ts_ref.err # "none" THEN ts_ref
          ELSE LET speed_target == power_law_series(SpeedOf(ts_ref.val),
                                                    PyInt(ref_height), z_target, alpha)
               IN  [ts_ref EXCEPT !.err = speed_target.err, !.val = speed_target.val])
            : ts_ref \in {get_time_series_at_location(d, files, lat, lon, ref_height,
                                                      start_year, end_year)}} : TRUE

\* fit_weibull_at_location
fit_weibull_at_location(d, files, lat, lon, height, start_year, end_year) ==
    CHOOSE out \in
        {(IF ts.err # "none" THEN ts
          ELSE [ts EXCEPT !.val = fit_weibull(SpeedOf(ts.val))])
            : ts \in {get_time_series_at_location(d, files, lat, lon, height,
                                                  start_year, end_year)}} : TRUE

\* plot_speed_distribution(speeds) up to plt.show(): the sample is fitted,
\* the histogram of its non-NaN entries is drawn (an empty one too: numpy
\* divides 0 by 0 into NaN heights) and, unless the fit is (NaN, NaN), the
\* fitted density from 0 to arr.max(); the value returned is the fitted pair
plot_speed_distribution(speeds) == fit_weibull(speeds)

\* plot_speed_distribution_at_location up to plt.show()
plot_speed_distribution_at_location(d, files, lat, lon, height, start_year, end_year) ==
    CHOOSE out \in
        {(IF ts.err # "none" THEN ts
          ELSE [ts EXCEPT !.val = plot_speed_distribution(SpeedOf(ts.val))])
            : ts \in {get_time_series_at_location(d, files, lat, lon, height,
                                                  start_year, end_year)}} : TRUE

\* ts["direction"]
DirectionOf(ts) == [n \in 1..Len(ts) |-> ts[n].direction]

\* plot_wind_rose(directions_deg) up to plt.show(): the bars of the sector
\* frequencies of the non-NaN directions are drawn (NaN bars when there is
\* none: counts / counts.sum() is a numpy division); the method returns None
plot_wind_rose(directions_deg) == <<>>

\* plot_wind_rose_at_location up to plt.show()
plot_wind_rose_at_location(d, files, lat, lon, height, start_year, end_year) ==
    CHOOSE out \in
        {(IF ts.err # "none" THEN ts
          ELSE [ts EXCEPT !.val = plot_wind_rose(DirectionOf(ts.val))])
            : ts \in {get_time_series_at_location(d, files, lat, lon, height,
                                                  start_year, end_year)}} : TRUE

\* the threshold compared with >= instead of >
RefHeight_inclusive(hub_height) == IF Le(PyInt(50), hub_height) THEN 100 ELSE 10

\* reference level chosen by compute_aep
RefHeight(hub_height) == IF Lt(PyInt(50), hub_height) THEN 100 ELSE 10

\* compute_aep(lat, lon, hub_height, power_curve_csv, year, alpha); the CSV
\* file is given by the table df that pd.read_csv returns for it
compute_aep(d, files, lat, lon, hub_height, df, year, alpha) ==
    CHOOSE out \in
        {(IF speed_hub.err # "none" THEN speed_hub
          ELSE CHOOSE res \in
                   {(IF curve.err # "none"
                     THEN [speed_hub EXCEPT !.err = curve.err, !.val = <<>>]
                     ELSE LET power_ts_kw == interpolate_power(speed_hub.val, curve.ws,
                                                               curve.power)
                              total_energy_kwh == SeqSum(power_ts_kw)
                          IN  [speed_hub EXCEPT
                                   !.val = Div(total_energy_kwh, Flt(FALSE, 1000, 1))])
                       : curve \in {load_power_curve(df)}} : TRUE)
            : speed_hub \in {get_speed_at_height_power_law(d, files, lat, lon,
                                                           hub_height, RefHeight(hub_height),
                                                           alpha, year, year)}} : TRUE

-----------------------------------------------------------------------------
(* State *)

VARIABLES
    nc_files,   \* self.nc_files: the list of paths given to the constructor
    ds,         \* self.ds: NoneDs until a load_data has succeeded
    qloads,     \* number of successful load_data calls made by query methods
    last,       \* the last call: its name, arguments, result or error, and
                \* the number of load_data calls it made
    showing     \* TRUE while the last call waits in plt.show() for its figure
                \* to be closed, before it returns

vars == <<nc_files, ds, qloads, last, showing>>

-----------------------------------------------------------------------------
(* Inputs *)

\* the files on disk: two files whose time ranges overlap in one step
Paths == {0, 1}

FileLists == UNION {[1..n -> Paths] : n \in 0..MaxFiles}

Years == {DefaultStartYear, DefaultStartYear + 1}

\* (start_year, end_year)
Windows == {w \in Years \X Years : w[1] <= w[2]}

\* (lat, lon): on a grid line between two nodes, and outside the grid
QueryPoints == {<<0, 1>>, <<GridSpan + 1, 1>>}

\* a height without variables in the grid, and one with
QueryHeights == {50, 100}

HubHeights == {PyInt(50), Flt(FALSE, 90, 1)}

Alphas == {PyInt(1), PyInt(2)}

\* z_target and alpha of get_speed_at_height_power_law: also the ground level
\* with a negative exponent
TargetHeights == {PyInt(0), Flt(FALSE, 90, 1)}

ShearExponents == {PyInt(-1), PyInt(1)}

\* samples given to plot_speed_distribution: finite speeds and NaN (an
\* infinite speed is not drawn: the histogram has no finite range for it)
PlotSpeeds ==
    {<<>>, <<NaN>>, <<Flt(FALSE, 0, 1), Flt(FALSE, 0, 1)>>,
     <<Flt(FALSE, 1, 1), NaN, Flt(FALSE, 2, 1)>>}

\* directions in degrees given to plot_wind_rose
PlotDirections ==
    {<<>>, <<NaN>>, <<Flt(FALSE, 0, 1), Flt(FALSE, 90, 1), NaN>>}

\* column headers of power-curve tables
HdrWindSpeed == WindSpeedStr \o <<" ", "[", "m", "/", "s", "]">>

HdrPower == PowerStr \o <<" ", "[", "k", "W", "]">>

HdrCp == <<"C", "p", " ", "[", "-", "]">>

Headers == {HdrWindSpeed, HdrPower, HdrCp}

\* the numbers of the i-th column of every table
ColumnData(i) ==
    IF i % 2 = 1 THEN <<PyInt(0), PyInt(5), PyInt(10), PyInt(25)>>
    ELSE <<PyInt(0), PyInt(100), PyInt(500), PyInt(500)>>

\* pd.read_csv: the table with the given headers
Table(columns) ==
    [columns |-> columns, values |-> [i \in 1..Len(columns) |-> ColumnData(i)]]

\* the tables pd.read_csv returns: one to MaxCols columns with different
\* headers (a file without columns raises EmptyDataError in read_csv itself)
Tables ==
    {Table(c) : c \in {h \in UNION {[1..n -> Headers] : n \in 1..MaxCols} :
                           \A i, j \in 1..Len(h) : h[i] = h[j] => i = j}}

AepTables ==
    {Table(<<HdrWindSpeed, HdrPower>>), Table(<<HdrWindSpeed, HdrCp>>),
     Table(<<HdrCp, HdrPower>>)}

\* (point, hub_height, table, year, alpha) of compute_aep: every combination
\* with the table that has both columns; a table without one of them at one
\* point, year and exponent only, as load_power_curve reads none of these
AepCalls ==
    {c \in QueryPoints \X HubHeights \X AepTables \X Years \X Alphas :
        \/ c[3] = Table(<<HdrWindSpeed, HdrPower>>)
        \/ c[1] = <<0, 1>> /\ c[4] = DefaultStartYear /\ c[5] = PyInt(1)}

-----------------------------------------------------------------------------
(* The model object: construction and the methods that read the grid *)

Init ==
    /\ nc_files \in FileLists
    /\ ds = NoneDs
    /\ qloads = 0
    /\ last = NoCall
    /\ showing = FALSE

\* Each query method below is called once; r is what it left behind: self.ds,
\* the load_data calls it made, the error it raised and the value it returned.
\* The load_data calls of a query method that succeeded:
QueryLoads(r) == IF r.nload > 0 /\ r.err # "ValueError" THEN r.nload ELSE 0

LoadData ==
    LET r == load_data(nc_files)
    IN  /\ ~showing
        /\ ds' = IF r.err = "none" THEN r.ds ELSE ds
        /\ last' = Call("load_data", <<>>, 1, r.err, <<>>)
        /\ UNCHANGED <<nc_files, qloads, showing>>

SubsetYears ==
    /\ ~showing
    /\ qloads < MaxLoads
    /\ \E w \in Windows :
           \E r \in {subset_years(ds, nc_files, w[1], w[2])} :
               /\ ds' = r.ds
               /\ qloads' = qloads + QueryLoads(r)
               /\ last' = Call("subset_years",
                                <<w[1], w[2]>>,
                                r.nload, r.err, r.val)
               /\ UNCHANGED <<nc_files, showing>>

GetSpeedDirectionAtHeight ==
    /\ ~showing
    /\ qloads < MaxLoads
    /\ \E h \in QueryHeights, w \in Windows :
           \E r \in {get_speed_direction_at_height(ds, nc_files, h, w[1], w[2])} :
               /\ ds' = r.ds
               /\ qloads' = qloads + QueryLoads(r)
               /\ last' = Call("get_speed_direction_at_height",
                                <<h, w[1], w[2]>>,
                                r.nload, r.err, r.val)
               /\ UNCHANGED <<nc_files, showing>>

GetTimeSeriesAtLocation ==
    /\ ~showing
    /\ qloads < MaxLoads
    /\ \E p \in QueryPoints, h \in QueryHeights, w \in Windows :
           \E r \in {get_time_series_at_location(ds, nc_files, p[1], p[2], h, w[1], w[2])} :
               /\ ds' = r.ds
               /\ qloads' = qloads + QueryLoads(r)
               /\ last' = Call("get_time_series_at_location",
                                <<p[1], p[2], h, w[1], w[2]>>,
                                r.nload, r.err, r.val)
               /\ UNCHANGED <<nc_files, showing>>

GetSpeedAtHeightPowerLaw ==
    /\ ~showing
    /\ qloads < MaxLoads
    /\ \E p \in QueryPoints, zt \in TargetHeights, rh \in GridHeights, a \in ShearExponents :
           \E r \in {get_speed_at_height_power_law(ds, nc_files, p[1], p[2], zt, rh, a,
                                                    DefaultStartYear, DefaultEndYear)} :
               /\ ds' = r.ds
               /\ qloads' = qloads + QueryLoads(r)
               /\ last' = Call("get_speed_at_height_power_law",
                                <<p[1], p[2], zt, rh, a,
                                  DefaultStartYear, DefaultEndYear>>,
                                r.nload, r.err, r.val)
               /\ UNCHANGED <<nc_files, showing>>

FitWeibullAtLocation ==
    /\ ~showing
    /\ qloads < MaxLoads
    /\ \E p \in QueryPoints, h \in QueryHeights, w \in Windows :
           \E r \in {fit_weibull_at_location(ds, nc_files, p[1], p[2], h, w[1], w[2])} :
               /\ ds' = r.ds
               /\ qloads' = qloads + QueryLoads(r)
               /\ last' = Call("fit_weibull_at_location",
                                <<p[1], p[2], h, w[1], w[2]>>,
                                r.nload, r.err, r.val)
               /\ UNCHANGED <<nc_files, showing>>

\* The two plot methods end in "if show: plt.show()".  With show=False, or
\* when the series could not be read, the call is over in this step.  With
\* show=True the grid has been read and the figure drawn, and the call waits
\* in plt.show() until the figure is closed (PltShowReturns); last holds what
\* it will return.  The program is single-threaded and registers no callback
\* on the figure, so no other method runs in between.
PlotSpeedDistributionAtLocation ==
    /\ ~showing
    /\ qloads < MaxLoads
    /\ \E p \in QueryPoints, h \in QueryHeights, show \in BOOLEAN :
           \E r \in {plot_speed_distribution_at_location(ds, nc_files, p[1], p[2], h,
                                                          DefaultStartYear, DefaultEndYear)} :
               /\ ds' = r.ds
               /\ qloads' = qloads + QueryLoads(r)
               /\ last' = Call("plot_speed_distribution_at_location",
                                <<p[1], p[2], h, DefaultStartYear, DefaultEndYear, show>>,
                                r.nload, r.err, r.val)
               /\ showing' = (show /\ r.err = "none")
               /\ UNCHANGED nc_files

PlotWindRoseAtLocation ==
    /\ ~showing
    /\ qloads < MaxLoads
    /\ \E p \in QueryPoints, h \in QueryHeights, show \in BOOLEAN :
           \E r \in {plot_wind_rose_at_location(ds, nc_files, p[1], p[2], h,
                                                 DefaultStartYear, DefaultEndYear)} :
               /\ ds' = r.ds
               /\ qloads' = qloads + QueryLoads(r)
               /\ last' = Call("plot_wind_rose_at_location",
                                <<p[1], p[2], h, DefaultStartYear, DefaultEndYear, show>>,
                                r.nload, r.err, r.val)
               /\ showing' = (show /\ r.err = "none")
               /\ UNCHANGED nc_files

\* plot_speed_distribution called on a sample of the caller's (as the example
\* script does with the speeds of a time series): it reads and writes nothing
\* of the object and, with show=True, waits in plt.show()
PlotSpeedDistribution ==
    /\ ~showing
    /\ \E speeds \in PlotSpeeds, show \in BOOLEAN :
           \E r \in {plot_speed_distribution(speeds)} :
               /\ last' = Call("plot_speed_distribution", <<speeds, show>>, 0, "none", r)
               /\ showing' = show
               /\ UNCHANGED <<nc_files, ds, qloads>>

\* plot_wind_rose called on directions of the caller's
PlotWindRose ==
    /\ ~showing
    /\ \E directions_deg \in PlotDirections, show \in BOOLEAN :
           \E r \in {plot_wind_rose(directions_deg)} :
               /\ last' = Call("plot_wind_rose", <<directions_deg, show>>, 0, "none", r)
               /\ showing' = show
               /\ UNCHANGED <<nc_files, ds, qloads>>

\* plt.show() returns when the figure is closed, and the plot method returns
\* what it had computed
PltShowReturns ==
    /\ showing
    /\ showing' = FALSE
    /\ UNCHANGED <<nc_files, ds, qloads, last>>

ComputeAep ==
    /\ ~showing
    /\ qloads < MaxLoads
    /\ \E c \in AepCalls :
           \E r \in {compute_aep(ds, nc_files, c[1][1], c[1][2], c[2], c[3], c[4], c[5])} :
               /\ ds' = r.ds
               /\ qloads' = qloads + QueryLoads(r)
               /\ last' = Call("compute_aep",
                                <<c[1][1], c[1][2], c[2], c[3], c[4], c[5]>>,
                                r.nload, r.err, r.val)
               /\ UNCHANGED <<nc_files, showing>>

\* the static method load_power_curve, called on its own
LoadPowerCurve ==
    \E df \in Tables :
        LET r == load_power_curve(df)
        IN  /\ ~showing
            /\ last' = Call("load_power_curve", <<df>>, 0, r.err, <<r.ws, r.power>>)
            /\ UNCHANGED <<nc_files, ds, qloads, showing>>

Next ==
    \/ LoadData
    \/ LoadPowerCurve
    \/ SubsetYears
    \/ GetSpeedDirectionAtHeight
    \/ GetTimeSeriesAtLocation
    \/ GetSpeedAtHeightPowerLaw
    \/ FitWeibullAtLocation
    \/ PlotSpeedDistributionAtLocation
    \/ PlotWindRoseAtLocation
    \/ PlotSpeedDistribution
    \/ PlotWindRose
    \/ PltShowReturns
    \/ ComputeAep

Spec == Init /\ [][Next]_vars

-----------------------------------------------------------------------------
(* The static methods, called on their own.  They read and keep no state,   *)
(* so a behaviour is one call, on arguments drawn from the sets below.      *)

\* u, v: Python ints and doubles (with both zeros) of magnitude <= MaxUV
UVValues ==
    {PyInt(i) : i \in -MaxUV..MaxUV}
        \cup {Flt(b, n, 1) : b \in BOOLEAN, n \in 0..MaxUV}

SpeedValues == {Flt(FALSE, n, 2) : n \in 0..(2 * MaxSpeed)}

\* heights: Python ints and a float, the ground level among them
LevelValues == {PyInt(0), PyInt(10), PyInt(15), PyInt(100), Flt(FALSE, 90, 1)}

\* exponents: Python ints and the floats 0.5 and -0.5
Exponents == {PyInt(a) : a \in -1..2} \cup {Flt(FALSE, 1, 2), Flt(TRUE, 1, 2)}

\* samples of wind speeds: NaN or 0 .. MaxSpeed, at most MaxSample entries
SampleValues == {NaN} \cup {Flt(FALSE, n, 1) : n \in 0..MaxSpeed}

Samples == UNION {[1..n -> SampleValues] : n \in 0..MaxSample}

CurveSpeeds == <<5, 10, 20>>

CurvePowers == {0, 100, 500}

\* power curves: strictly ascending speeds, at most MaxCurve points
Curves ==
    {c \in UNION {[1..n -> (1..Len(CurveSpeeds)) \X CurvePowers] : n \in 1..MaxCurve} :
        \A i \in 1..(Len(c) - 1) : c[i][1] < c[i + 1][1]}

CurveWs(c) == [i \in 1..Len(c) |-> Flt(FALSE, CurveSpeeds[c[i][1]], 1)]

CurvePower(c) == [i \in 1..Len(c) |-> Flt(FALSE, c[i][2], 1)]

QuerySpeeds == {NaN, Inf(FALSE), Inf(TRUE)} \cup {Flt(FALSE, 5 * n, 2) : n \in 0..9}

InitFn ==
    /\ nc_files = <<>>
    /\ ds = NoneDs
    /\ qloads = 0
    /\ last = NoCall
    /\ showing = FALSE

UvToSpeedDir ==
    \E u \in UVValues, v \in UVValues :
        /\ last.op = "init"
        /\ HasSqrt(ToFlt(Add(Mul(u, u), Mul(v, v))))
        /\ last' = Call("_uv_to_speed_dir", <<u, v>>, 0, "none", uv_to_speed_dir(u, v))
        /\ UNCHANGED <<nc_files, ds, qloads, showing>>

\* a fractional exponent is drawn with heights whose ratio has a rational root
PowerLawProfile ==
    \E V \in SpeedValues, z_ref \in LevelValues, z_target \in LevelValues,
       alpha \in Exponents :
        /\ last.op = "init"
        /\ alpha.d = 1 \/ IsZero(z_ref) \/ HasSqrt(Div(z_target, z_ref))
        /\ \E r \in {power_law_profile(V, z_ref, z_target, alpha)} :
            /\ last' = Call("power_law_profile", <<V, z_ref, z_target, alpha>>, 0,
                             r.err, r.val)
            /\ UNCHANGED <<nc_files, ds, qloads, showing>>

FitWeibull ==
    \E speeds \in Samples :
        /\ last.op = "init"
        /\ last' = Call("fit_weibull", <<speeds>>, 0, "none", fit_weibull(speeds))
        /\ UNCHANGED <<nc_files, ds, qloads, showing>>

InterpolatePower ==
    \E c \in Curves, x \in QuerySpeeds :
        /\ last.op = "init"
        /\ last' = Call("interpolate_power", <<x, CurveWs(c), CurvePower(c)>>, 0, "none",
                         interpolate_power(<<x>>, CurveWs(c), CurvePower(c))[1])
        /\ UNCHANGED <<nc_files, ds, qloads, showing>>

NextFn ==
    \/ UvToSpeedDir
    \/ PowerLawProfile
    \/ FitWeibull
    \/ InterpolatePower

SpecFn == InitFn /\ [][NextFn]_vars

-----------------------------------------------------------------------------
(* Properties of the static methods (specification SpecFn) *)

Zero == Flt(FALSE, 0, 1)

One == Flt(FALSE, 1, 1)

\* C1: interpolate_power on an ascending curve gives exactly 0 for a query
\* strictly below the first or strictly above the last curve speed, the end
\* point's power for a query equal to the first or last curve speed, and for
\* a query strictly between two adjacent curve points the value on the
\* straight line through them; the curve [(5,100),(10,500)] gives 300 at 7.5.
C1_InterpolatePower ==
    last.op = "interpolate_power" =>
        LET x == last.args[1]
            xp == last.args[2]
            fp == last.args[3]
            n == Len(xp)
        IN  /\ (Lt(x, xp[1]) \/ Lt(xp[n], x)) => last.val = Zero
            /\ Eq(x, xp[1]) => Eq(last.val, fp[1])
            /\ Eq(x, xp[n]) => Eq(last.val, fp[n])
            /\ \A i \in 1..(n - 1) :
                   (Lt(xp[i], x) /\ Lt(x, xp[i + 1])) =>
                       Eq(Mul(last.val, Sub(xp[i + 1], xp[i])),
                          Add(Mul(fp[i], Sub(xp[i + 1], x)),
                              Mul(fp[i + 1], Sub(x, xp[i]))))
            /\ (/\ xp = <<Flt(FALSE, 5, 1), Flt(FALSE, 10, 1)>>
                /\ fp = <<Flt(FALSE, 100, 1), Flt(FALSE, 500, 1)>>
                /\ x = Flt(FALSE, 15, 2)) => last.val = Flt(FALSE, 300, 1)

\* the example of C1: 7.5 m/s between (5,100) and (10,500) gave 300
C1_Witness ==
    /\ last.op = "interpolate_power"
    /\ last.args[1] = Flt(FALSE, 15, 2)
    /\ last.args[2] = <<Flt(FALSE, 5, 1), Flt(FALSE, 10, 1)>>
    /\ last.args[3] = <<Flt(FALSE, 100, 1), Flt(FALSE, 500, 1)>>
    /\ last.val = Flt(FALSE, 300, 1)

InHalfOpen360(a) ==
    /\ a.c = "fin"
    /\ 0 <= a.lo
    /\ IF a.lo = a.hi THEN a.hi < 360 ELSE a.hi <= 360

\* C3: _uv_to_speed_dir returns a direction in [0, 360) for every input;
\* u=1, v=0 gives speed 1 and direction 270; u=0, v=-1 gives speed 1 and
\* direction 0; u = v = 0, as ints or as doubles, gives speed 0 and
\* direction 0.
C3_UvToSpeedDir ==
    last.op = "_uv_to_speed_dir" =>
        LET u == last.args[1]
            v == last.args[2]
        IN  /\ InHalfOpen360(last.val.direction)
            /\ (Eq(u, One) /\ IsZero(v)) =>
                   (Eq(last.val.speed, One) /\ last.val.direction = Deg(270, 270))
            /\ (IsZero(u) /\ Eq(v, Neg(One))) =>
                   (Eq(last.val.speed, One) /\ last.val.direction = Deg(0, 0))
            /\ (IsZero(u) /\ IsZero(v)) =>
                   (IsZero(last.val.speed) /\ last.val.direction = Deg(0, 0))

\* sum of the squares of a sample
RECURSIVE SumSq(_)
SumSq(s) == IF s = <<>> THEN Zero ELSE Add(SumSq(Tail(s)), Mul(Head(s), Head(s)))

NaNPair == [k |-> NaN, A |-> NaN]

\* C4: fit_weibull drops the NaN entries; an empty rest or a rest of mean
\* zero gives the pair (NaN, NaN) and no exception; every other sample gives
\* k = (std/mean)^(-1.086) and A = mean / Gamma(1 + 1/k), never (NaN, NaN).
\* With N values of sum S and sum of squares Q, (std/mean)^2 = N*Q/S^2 - 1.
C4_FitWeibull ==
    last.op = "fit_weibull" =>
        LET rest == SelectSeq(last.args[1], LAMBDA x : x.c # "nan")
            N == PyInt(Len(rest))
            S == SeqSum(rest)
            ratio2 == Sub(Div(Mul(N, SumSq(rest)), Mul(S, S)), One)
        IN  /\ last.err = "none"
            /\ IF rest = <<>> \/ IsZero(S)
               THEN last.val = NaNPair
               ELSE /\ last.val # NaNPair
                    /\ ~IsNaN(last.val.k) /\ ~IsNaN(last.val.A)
                    /\ IF IsZero(ratio2)
                       THEN last.val.k = Inf(FALSE) /\ Eq(last.val.A, Div(S, N))
                       ELSE /\ last.val.k.c = "pow"
                            /\ Eq(Flt(FALSE, last.val.k.n, last.val.k.d), ratio2)
                            /\ last.val.A.c = "pow"
                            /\ Eq(Flt(FALSE, last.val.A.n, last.val.A.d), Div(S, N))

\* a sample with a NaN entry and two different speeds was fitted
C4_Witness ==
    /\ last.op = "fit_weibull"
    /\ \E i \in 1..Len(last.args[1]) : IsNaN(last.args[1][i])
    /\ last.val.k.c = "pow"
    /\ last.val.A.c = "pow"

IsConstantSample(s) ==
    /\ Len(s) >= 1
    /\ Lt(Zero, s[1])
    /\ \A i \in 1..Len(s) : s[i] = s[1]

\* C5: for a constant sample of N >= 1 copies of v > 0, fit_weibull returns
\* A and k both finite (neither NaN nor infinite), and A * Gamma(1 + 1/k) is
\* within 1 of v.
C5_ConstantSampleFinite ==
    (last.op = "fit_weibull" /\ IsConstantSample(last.args[1])) =>
        LET v == last.args[1][1]
            m == Mul(last.val.A, GammaOnePlusInv(last.val.k))
        IN  /\ IsFinite(last.val.A)
            /\ IsFinite(last.val.k)
            /\ Lt(Sub(v, One), m) /\ Lt(m, Add(v, One))

\* C6: for V > 0, z_ref > 0 and alpha > 0, power_law_profile returns more
\* than V when z_target > z_ref; and for z_ref > 0 it returns exactly V when
\* z_target = z_ref, for any alpha (negative, zero, fractional), the heights
\* being ints or doubles.
C6_PowerLaw ==
    last.op = "power_law_profile" =>
        LET V == last.args[1]
            z_ref == last.args[2]
            z_target == last.args[3]
            alpha == last.args[4]
        IN  /\ (Lt(Zero, V) /\ Lt(Zero, z_ref) /\ Lt(Zero, alpha) /\ Lt(z_ref, z_target))
                   => (last.err = "none" /\ Lt(V, last.val))
            /\ (Lt(Zero, z_ref) /\ Eq(z_ref, z_target))
                   => (last.err = "none" /\ Eq(last.val, V))

\* extrapolation upwards from an int level to an int level raised the speed
C6_Witness ==
    /\ last.op = "power_law_profile"
    /\ last.args[2] = PyInt(10)
    /\ last.args[3] = PyInt(15)
    /\ last.args[4] = PyInt(2)
    /\ Lt(Zero, last.args[1])
    /\ last.err = "none"
    /\ Lt(last.args[1], last.val)

-----------------------------------------------------------------------------
(* Properties of the model object (specification Spec) *)

QueryOps ==
    {"subset_years", "get_speed_direction_at_height", "get_time_series_at_location",
     "get_speed_at_height_power_law", "fit_weibull_at_location",
     "plot_speed_distribution_at_location", "plot_wind_rose_at_location",
     "compute_aep"}

\* speed at (lat, lon) and height h in time step e of the grid
SpeedAt(e, lat, lon, h) ==
    LET ui == InterpU(e, h, lat, lon)
        vi == InterpV(e, h, lat, lon)
    IN  Sqrt(Add(Mul(ui, ui), Mul(vi, vi)))

\* sum over the time steps of the power at the speed scaled to hub height
RECURSIVE SumPower(_, _, _, _, _, _, _)
SumPower(steps, lat, lon, ref, hub, alpha, curve) ==
    IF steps = <<>> THEN Zero
    ELSE Add(SumPower(Tail(steps), lat, lon, ref, hub, alpha, curve),
             interpolate_power(
                 <<Mul(SpeedAt(Head(steps), lat, lon, ref), Pow(Div(hub, PyInt(ref)), alpha))>>,
                 curve.ws, curve.power)[1])

\* C2: compute_aep returns (sum over every time step of the requested year
\* of interpolate_power(V_ref * (hub_height / ref_height)^alpha)) / 1000,
\* with ref_height 100 when hub_height > 50 and 10 otherwise (hub_height 50
\* uses the 10 m level), each time step counted once.
C2_ComputeAep ==
    (last.op = "compute_aep" /\ last.err = "none") =>
        LET lat == last.args[1]
            lon == last.args[2]
            hub == last.args[3]
            curve == load_power_curve(last.args[4])
            year == last.args[5]
            alpha == SN(last.args[6])
            ref == IF Eq(hub, PyInt(50)) \/ Lt(hub, PyInt(50)) THEN 10 ELSE 100
            steps == SelectSeq(ds.time, LAMBDA e : Year(e.t) = year)
            total == SumPower(steps, lat, lon, ref, hub, alpha, curve)
        IN  IF IsNaN(total) THEN IsNaN(last.val)
            ELSE Eq(Mul(last.val, Flt(FALSE, 1000, 1)), total)

\* an AEP above zero was computed for a hub at exactly 50 m from a year
\* with more than one time step
C2_Witness ==
    /\ last.op = "compute_aep"
    /\ last.err = "none"
    /\ last.args[3] = PyInt(50)
    /\ Lt(Zero, last.val)
    /\ Len(SelectSeq(ds.time, LAMBDA e : Year(e.t) = last.args[5])) > 1

OutsideGrid(lat, lon) == lat < 0 \/ lat > GridSpan \/ lon < 0 \/ lon > GridSpan

\* C7: get_time_series_at_location and compute_aep end in an error, and
\* return no value, whenever the requested height has no variables in the
\* grid, or the point lies outside the grid, or the year window holds no time
\* step.
C7_DataUnavailable ==
    /\ (last.op = "get_time_series_at_location" /\ ds.loaded) =>
           ((\/ last.args[3] \notin GridHeights
             \/ OutsideGrid(last.args[1], last.args[2])
             \/ sel_years(ds.time, last.args[4], last.args[5]) = <<>>)
                => last.err # "none")
    /\ (last.op = "compute_aep" /\ ds.loaded) =>
           ((\/ OutsideGrid(last.args[1], last.args[2])
             \/ sel_years(ds.time, last.args[5], last.args[5]) = <<>>)
                => last.err # "none")

\* C8: after load_data the time index of the merged dataset is strictly
\* ascending, every time stamp appearing once.
C8_TimeStrictlyAscending ==
    ds.loaded =>
        \A i \in 1..(Len(ds.time) - 1) : ds.time[i].t < ds.time[i + 1].t

HasColumn(df, sub) == \E i \in 1..Len(df.columns) : Contains(sub, df.columns[i])

\* C9: load_power_curve ends in an error and returns no pair whenever the
\* table has no column with "Wind Speed" in its header or none with "Power";
\* in compute_aep the failure comes at load time, so that no AEP is returned.
C9_MalformedPowerCurve ==
    /\ (/\ last.op = "load_power_curve"
        /\ ~(HasColumn(last.args[1], WindSpeedStr) /\ HasColumn(last.args[1], PowerStr)))
           => (last.err # "none" /\ last.val = <<<<>>, <<>>>>)
    /\ (/\ last.op = "compute_aep"
        /\ ~(HasColumn(last.args[4], WindSpeedStr) /\ HasColumn(last.args[4], PowerStr)))
           => (last.err # "none" /\ last.val = <<>>)

\* compute_aep sampled the grid and then failed on a table without a
\* "Power" column
C9_Witness ==
    /\ last.op = "compute_aep"
    /\ ds.loaded
    /\ HasColumn(last.args[4], WindSpeedStr)
    /\ ~HasColumn(last.args[4], PowerStr)
    /\ last.err = "IndexError"

\* a step in which one of the query methods is called
QueryStep == ~showing /\ last'.op \in QueryOps

\* C10 as stated: a query made while ds is None makes exactly one load_data
\* call, every later query finds ds loaded and makes none, and no query
\* changes ds once it is loaded.
C10_LoadedByFirstQuery ==
    [][QueryStep =>
          /\ ~ds.loaded => last'.nload = 1
          /\ ds.loaded => (last'.nload = 0 /\ ds' = ds)
          /\ last.op \in QueryOps => (ds.loaded /\ last'.nload = 0)]_vars

\* C10 amended: a query made while ds is None makes exactly one load_data
\* call, which sets ds unless it fails (then ds stays None and the query ends
\* in that error); a query made while ds is loaded makes no load_data call and
\* leaves ds as it is; query methods load the grid at most once.
C10_LoadOnce ==
    /\ [](qloads <= 1)
    /\ [][QueryStep =>
             /\ ~ds.loaded =>
                    /\ last'.nload = 1
                    /\ ds'.loaded <=> last'.err # "ValueError"
                    /\ ~ds'.loaded => ds' = ds
             /\ ds.loaded => (last'.nload = 0 /\ ds' = ds)]_vars

\* a query found the grid that an earlier query had loaded
C10_Witness ==
    /\ ds.loaded
    /\ qloads = 1
    /\ last.op \in QueryOps
    /\ last.nload = 0

====
